---- MODULE Spec2Model ----
(***************************************************************************)
(* Model of random_raindrop.py: RaindropManager (fetch, cache, merge) and  *)
(* main (pick one article and print its url).                              *)
(*                                                                         *)
(* Strings of the program are modelled as tuples so that every value of a  *)
(* field is comparable: <<>> is the empty string "", <<"Untitled">> the     *)
(* default title, <<"title", c, i>> the title of item i of collection c.   *)
(***************************************************************************)
EXTENDS Integers, Sequences, FiniteSets, TLC

VARIABLES
    token,      \* self.raindrop_token is set (RAINDROP_TOKEN configured)
    srvColls,   \* remote: "items" of GET /collections, in API order
    srvShape,   \* remote: the kinds of the "items" of GET /raindrops/{id}
    now,        \* datetime.now(), in seconds
    file,       \* CACHE_FILE: whether it exists, and its content as tokens
    op,         \* the operation that ran last
    at,         \* datetime.now() when it ran
    arg,        \* its argument
    ret,        \* its return value, [some |-> FALSE] being None
    net,        \* the network requests it issued, in order
    calls,      \* the fetch calls get_all_articles made, in order
    colls,      \* the collection list get_all_articles fetched
    pre,        \* content of CACHE_FILE when the operation started
    logged,     \* the lines it passed to log_error, in order
    stdout,     \* what main printed
    pc,         \* concurrent invocations: position of each
    arts,       \* concurrent invocations: the list each holds
    wbuf,       \* concurrent invocations: the document each is writing
    woff,       \* concurrent invocations: file offset of each writer
    given       \* concurrent invocations: every list handed to save_cache

vars == <<token, srvColls, srvShape, now, file, op, at, arg, ret, net, calls,
          colls, pre, logged, stdout, pc, arts, wbuf, woff, given>>

seqVars == <<op, at, arg, ret, net, calls, colls, pre, logged, stdout>>
concVars == <<pc, arts, wbuf, woff, given>>

----------------------------------------------------------------------------
(* Bounds of the model *)

MaxFails == 1       \* network requests that may fail within one operation
MaxNow == 300       \* the clock stops here
ChunkLen == 4       \* tokens the buffered writer flushes per write
NProcs == 2         \* concurrent invocations

TickSteps == {299, 300}
InitialAges == {60, 600}

(* Program constants *)

CACHE_DURATION == 300
PerPage == 50
CollectionLimit == 5

----------------------------------------------------------------------------
(* Values *)

Empty == <<>>
NoKey == <<"<no key>">>
Untitled == <<"Untitled">>
RaindropIo == <<"Raindrop.io">>
NoArticlesFound == <<"No articles found">>
None == [some |-> FALSE, val |-> <<>>]
Some(v) == [some |-> TRUE, val |-> v]
NoFile == [exists |-> FALSE, data |-> <<>>]
File(d) == [exists |-> TRUE, data |-> d]

Min(a, b) == IF a < b THEN a ELSE b

CollTitle(c) == <<"Collection", c>>
Synthetic == [id |-> 0, title |-> <<"All Bookmarks">>]

(* One element of the "items" array of a raindrops response. *)
Item(c, i, kind) ==
    CASE kind = "ok"         -> [dict |-> TRUE, title |-> <<"title", c, i>>, link |-> <<"url", c, i>>]
      [] kind = "notitle"    -> [dict |-> TRUE, title |-> NoKey, link |-> <<"url", c, i>>]
      [] kind = "emptytitle" -> [dict |-> TRUE, title |-> Empty, link |-> <<"url", c, i>>]
      [] kind = "nolink"     -> [dict |-> TRUE, title |-> <<"title", c, i>>, link |-> NoKey]
      [] OTHER               -> [dict |-> FALSE, title |-> NoKey, link |-> NoKey]

ItemsOf(c) == [i \in 1..Min(Len(srvShape), PerPage) |-> Item(c, i, srvShape[i])]

(* dict.get(key, default) *)
Get(value, default) == IF value = NoKey THEN default ELSE value

(* Python truthiness of a string or of a list *)
Truthy(s) == s # Empty

(* A decoded element of the "items" array of a collections response. *)
Coll(c) == [dict |-> TRUE, id |-> c]
BadColl == [dict |-> FALSE, id |-> 0]

----------------------------------------------------------------------------
(* The remote API.  w = [net, log] is threaded through every call: net is  *)
(* the requests issued so far, log the lines given to log_error.  Request  *)
(* number k of an operation fails (connection error, timeout, body that is *)
(* not JSON) iff k \in fails.                                              *)

NoWorld == [net |-> <<>>, log |-> <<>>]
Sent(w, url) == [w EXCEPT !.net = Append(@, url)]
LogError(w, message) == [w EXCEPT !.log = Append(@, message)]

(* Mutant: the token check is missing. *)
GetCollectionsNoTokenCheck(w, fails) ==
    LET w1 == Sent(w, <<"collections">>)
    IN  IF Len(w1.net) \in fails \/ \E i \in 1..Len(srvColls) : ~srvColls[i].dict
        THEN [ret |-> <<Synthetic>>, w |-> LogError(w1, "Collections error")]
        ELSE [ret |-> [i \in 1..Len(srvColls) |->
                          [id |-> srvColls[i].id, title |-> CollTitle(srvColls[i].id)]]
                      \o <<Synthetic>>,
              w |-> w1]

(* Mutant: the except branch returns [] as the other fetch does. *)
GetCollectionsEmptyOnError(w, fails) ==
    IF ~token
    THEN [ret |-> <<>>, w |-> w]
    ELSE LET w1 == Sent(w, <<"collections">>)
         IN  IF Len(w1.net) \in fails \/ \E i \in 1..Len(srvColls) : ~srvColls[i].dict
             THEN [ret |-> <<>>, w |-> LogError(w1, "Collections error")]
             ELSE [ret |-> [i \in 1..Len(srvColls) |->
                               [id |-> srvColls[i].id, title |-> CollTitle(srvColls[i].id)]]
                           \o <<Synthetic>>,
                   w |-> w1]

GetCollections(w, fails) ==
    IF ~token
    THEN [ret |-> <<>>, w |-> w]
    ELSE LET w1 == Sent(w, <<"collections">>)
         IN  IF Len(w1.net) \in fails \/ \E i \in 1..Len(srvColls) : ~srvColls[i].dict
             THEN [ret |-> <<Synthetic>>, w |-> LogError(w1, "Collections error")]
             ELSE [ret |-> [i \in 1..Len(srvColls) |->
                               [id |-> srvColls[i].id, title |-> CollTitle(srvColls[i].id)]]
                           \o <<Synthetic>>,
                   w |-> w1]

GetCollectionName(cid, w, fails) ==
    IF cid = 0
    THEN [ret |-> RaindropIo, w |-> w]
    ELSE LET r == GetCollections(w, fails)
             hits == {i \in 1..Len(r.ret) : r.ret[i].id = cid}
             first == CHOOSE i \in hits : \A j \in hits : i <= j
         IN  [ret |-> IF hits = {} THEN RaindropIo ELSE <<"Raindrop", r.ret[first].title>>,
              w |-> r.w]

(* The loop over data["items"]: ok = FALSE when an item raises, ret then   *)
(* being the local `articles` at that point.                               *)
RECURSIVE ArticlesLoop(_, _, _, _, _, _)
ArticlesLoop(items, i, cid, acc, w, fails) ==
    IF i > Len(items) THEN [ok |-> TRUE, ret |-> acc, w |-> w]
    ELSE IF ~items[i].dict THEN [ok |-> FALSE, ret |-> acc, w |-> w]
    ELSE LET title == Get(items[i].title, Untitled)
             url == Get(items[i].link, Empty)
         IN  IF Truthy(url) /\ Truthy(title)
             THEN LET nm == GetCollectionName(cid, w, fails)
                  IN  ArticlesLoop(items, i + 1, cid,
                          Append(acc, [title |-> title, url |-> url, source |-> nm.ret]),
                          nm.w, fails)
             ELSE ArticlesLoop(items, i + 1, cid, acc, w, fails)

(* Mutant: the except branch returns the articles built so far. *)
GetRaindropArticlesPartial(cid, w, fails) ==
    IF ~token
    THEN [ret |-> <<>>, w |-> w]
    ELSE LET w1 == Sent(w, <<"raindrops", cid>>)
         IN  IF Len(w1.net) \in fails
             THEN [ret |-> <<>>, w |-> LogError(w1, "Raindrop.io error")]
             ELSE LET r == ArticlesLoop(ItemsOf(cid), 1, cid, <<>>, w1, fails)
                  IN  IF r.ok
                      THEN [ret |-> r.ret, w |-> r.w]
                      ELSE [ret |-> r.ret, w |-> LogError(r.w, "Raindrop.io error")]

GetRaindropArticles(cid, w, fails) ==
    IF ~token
    THEN [ret |-> <<>>, w |-> w]
    ELSE LET w1 == Sent(w, <<"raindrops", cid>>)
         IN  IF Len(w1.net) \in fails
             THEN [ret |-> <<>>, w |-> LogError(w1, "Raindrop.io error")]
             ELSE LET r == ArticlesLoop(ItemsOf(cid), 1, cid, <<>>, w1, fails)
                  IN  IF r.ok
                      THEN [ret |-> r.ret, w |-> r.w]
                      ELSE [ret |-> <<>>, w |-> LogError(r.w, "Raindrop.io error")]

----------------------------------------------------------------------------
(* The cache file.  json.dump writes the record as a sequence of tokens,   *)
(* json.load reads one back or raises.                                     *)

Tok(t, v) == [t |-> t, v |-> v]

ArticleTok(a) == Tok("article", <<a.title, a.url, a.source>>)
(* Mutant: title and url are read back from each other's place. *)
TokArticleSwapped(k) == [title |-> k.v[2], url |-> k.v[1], source |-> k.v[3]]

TokArticle(k) == [title |-> k.v[1], url |-> k.v[2], source |-> k.v[3]]

Serialize(ts, articles) ==
    <<Tok("{", <<>>), Tok("timestamp", <<ts>>), Tok("[", <<>>)>>
    \o [i \in 1..Len(articles) |-> ArticleTok(articles[i])]
    \o <<Tok("]", <<>>), Tok("}", <<>>)>>

WellFormed(d) ==
    /\ Len(d) >= 5
    /\ d[1].t = "{"
    /\ d[2].t = "timestamp"
    /\ d[3].t = "["
    /\ \A i \in 4..(Len(d) - 2) : d[i].t = "article"
    /\ d[Len(d) - 1].t = "]"
    /\ d[Len(d)].t = "}"

Parse(d) ==
    IF WellFormed(d)
    THEN [ok |-> TRUE, timestamp |-> d[2].v[1],
          articles |-> [i \in 1..(Len(d) - 5) |-> TokArticle(d[i + 3])]]
    ELSE [ok |-> FALSE, timestamp |-> 0, articles |-> <<>>]

(* Mutant: the comparison admits an age of exactly CACHE_DURATION. *)
FreshInclusive(ts) == now - ts <= CACHE_DURATION

Fresh(ts) == now - ts < CACHE_DURATION

LoadCache(f) ==
    IF ~f.exists THEN None
    ELSE LET p == Parse(f.data)
         IN  IF p.ok /\ Fresh(p.timestamp) THEN Some(p.articles) ELSE None

(* io: "ok"; "openfail", open() raises and the file is untouched;          *)
(* "writefail", open() has truncated the file and json.dump raises.        *)
IOOutcomes == {"ok", "openfail", "writefail"}

SaveCache(articles, f, w, io) ==
    CASE io = "ok" -> [file |-> File(Serialize(now, articles)), w |-> w]
      [] io = "openfail" -> [file |-> f, w |-> LogError(w, "Cache save error")]
      [] OTHER -> [file |-> File(<<>>), w |-> LogError(w, "Cache save error")]

----------------------------------------------------------------------------
(* get_all_articles and main *)

(* Mutant: the slice is one too long. *)
FirstSix(cl) == SubSeq(cl, 1, Min(CollectionLimit + 1, Len(cl)))

FirstCollections(cl) == SubSeq(cl, 1, Min(CollectionLimit, Len(cl)))

(* for collection in collections[:5]: if collection["id"] != 0: extend *)
RECURSIVE CollectionsLoop(_, _, _, _, _, _)
CollectionsLoop(cl, i, acc, w, cs, fails) ==
    IF i > Len(cl) THEN [ret |-> acc, w |-> w, calls |-> cs]
    ELSE IF cl[i].id # 0
    THEN LET r == GetRaindropArticles(cl[i].id, w, fails)
         IN  CollectionsLoop(cl, i + 1, acc \o r.ret, r.w,
                             Append(cs, <<"articles", cl[i].id>>), fails)
    ELSE CollectionsLoop(cl, i + 1, acc, w, cs, fails)

(* Mutant: the result of the main collection is not kept. *)
FetchAllDropsMain(fails) ==
    LET main == GetRaindropArticles(0, NoWorld, fails)
        cl == GetCollections(main.w, fails)
        rest == CollectionsLoop(FirstCollections(cl.ret), 1, <<>>, cl.w,
                                <<<<"articles", 0>>, <<"collections">>>>, fails)
    IN  [ret |-> rest.ret, w |-> rest.w, calls |-> rest.calls, colls |-> cl.ret]

(* Lines 135-143: the fetch sequence of a cache miss. *)
FetchAll(fails) ==
    LET main == GetRaindropArticles(0, NoWorld, fails)
        cl == GetCollections(main.w, fails)
        rest == CollectionsLoop(FirstCollections(cl.ret), 1, main.ret, cl.w,
                                <<<<"articles", 0>>, <<"collections">>>>, fails)
    IN  [ret |-> rest.ret, w |-> rest.w, calls |-> rest.calls, colls |-> cl.ret]

(* Mutant: the cache is written whatever the list. *)
SaveAlways(articles, f, w, io) == SaveCache(articles, f, w, io)

(* Lines 145-146 *)
SaveIfAny(articles, f, w, io) ==
    IF Truthy(articles) THEN SaveCache(articles, f, w, io) ELSE [file |-> f, w |-> w]

(* Mutant: the test of force_refresh is inverted. *)
UseCacheWhenForced(force, cached) == force /\ cached.some /\ Truthy(cached.val)

UseCache(force, cached) == ~force /\ cached.some /\ Truthy(cached.val)

(* fetched is what the fetch sequence yields if it runs, FetchAll(fails)   *)
(* for the failing requests of this call; io the outcome of the write.     *)
GetAllArticles(force, f, fetched, io) ==
    LET cached == IF force THEN None ELSE LoadCache(f)
    IN  IF UseCache(force, cached)
        THEN [ret |-> cached.val, w |-> NoWorld, calls |-> <<>>, colls |-> <<>>, file |-> f]
        ELSE LET saved == SaveIfAny(fetched.ret, f, fetched.w, io)
             IN  [ret |-> fetched.ret, w |-> saved.w, calls |-> fetched.calls,
                  colls |-> fetched.colls, file |-> saved.file]

(* Lines 169-173: what main prints when random.choice picks index k. *)
ChosenUrl(articles, k) == IF Truthy(articles) THEN articles[k].url ELSE NoArticlesFound

Choices(articles) == IF Truthy(articles) THEN 1..Len(articles) ELSE {1}

----------------------------------------------------------------------------
(* Inputs *)

MaxColls == 6

(* The sets of at most MaxFails failing requests among the first n. *)
FailSets(n) == {{s[i] : i \in 1..MaxFails} \ {0} : s \in [1..MaxFails -> 0..n]}

Server(cl, shape) == [colls |-> cl, shape |-> shape]

Servers ==
    { Server(<<>>, <<>>),
      Server(<<Coll(7)>>, <<"ok", "ok", "ok">>),
      Server(<<Coll(2), Coll(1)>>, <<"ok", "nolink">>),
      Server(<<Coll(1), BadColl>>, <<"emptytitle", "notitle">>),
      Server(<<Coll(3)>>, <<"ok", "bad">>),
      Server([i \in 1..MaxColls |-> Coll(i)], <<"nolink">>) }

OldArticle(i) == [title |-> <<"title", 0, 10 + i>>, url |-> <<"url", 0, 10 + i>>, source |-> RaindropIo]
OldList == <<OldArticle(1), OldArticle(2)>>

InitFiles ==
    {NoFile, File(<<Tok("junk", <<>>)>>)}
    \cup {File(Serialize(0 - age, OldList)) : age \in InitialAges}

SaveInputs == {<<>>, OldList}
TestIds == {0, 7}

Procs == 1..NProcs

Args(c, force, articles) == [cid |-> c, force |-> force, articles |-> articles]
NoArgs == Args(0, FALSE, <<>>)

----------------------------------------------------------------------------
(* Sequential specification: one invocation at a time, each operation of   *)
(* RaindropManager callable on its own.                                    *)

InitEnv ==
    /\ token \in BOOLEAN
    /\ \E s \in Servers : srvColls = s.colls /\ srvShape = s.shape
    /\ now = 0

InitSeq ==
    /\ op = "init"
    /\ at = now
    /\ arg = NoArgs
    /\ ret = None
    /\ net = <<>>
    /\ calls = <<>>
    /\ colls = <<>>
    /\ pre = file
    /\ logged = <<>>
    /\ stdout = <<>>

InitConcIdle ==
    /\ pc = [p \in Procs |-> "idle"]
    /\ arts = [p \in Procs |-> <<>>]
    /\ wbuf = [p \in Procs |-> <<>>]
    /\ woff = [p \in Procs |-> 0]
    /\ given = {}

Init ==
    /\ InitEnv
    /\ file \in InitFiles
    /\ InitSeq
    /\ InitConcIdle

Tick ==
    /\ \E d \in TickSteps : now + d <= MaxNow /\ now' = now + d
    /\ UNCHANGED <<token, srvColls, srvShape, file, seqVars, concVars>>

Ran(name, a, r, w, cs, cl, f, out) ==
    /\ op' = name
    /\ at' = now
    /\ arg' = a
    /\ ret' = r
    /\ net' = w.net
    /\ logged' = w.log
    /\ calls' = cs
    /\ colls' = cl
    /\ pre' = file
    /\ file' = f
    /\ stdout' = out
    /\ UNCHANGED <<token, srvColls, srvShape, now, concVars>>

OkIO == "ok"

(* Requests an operation issues when none fails: no run issues more. *)
Requests(r) == Len(r.w.net)

CallGetRaindropArticles ==
    \E c \in TestIds :
        \E fails \in FailSets(Requests(GetRaindropArticles(c, NoWorld, {}))) :
            \E r \in {GetRaindropArticles(c, NoWorld, fails)} :
                Ran("get_raindrop_articles", Args(c, FALSE, <<>>), Some(r.ret), r.w,
                    <<>>, <<>>, file, <<>>)

CallGetCollections ==
    \E fails \in FailSets(Requests(GetCollections(NoWorld, {}))) :
        \E r \in {GetCollections(NoWorld, fails)} :
            Ran("get_collections", NoArgs, Some(r.ret), r.w, <<>>, <<>>, file, <<>>)

CallLoadCache ==
    Ran("load_cache", NoArgs, LoadCache(file), NoWorld, <<>>, <<>>, file, <<>>)

CallSaveCache ==
    \E x \in SaveInputs, io \in IOOutcomes :
        \E r \in {SaveCache(x, file, NoWorld, io)} :
            Ran("save_cache", Args(0, FALSE, x), None, r.w, <<>>, <<>>, r.file, <<>>)

(* What the fetch sequence can yield here: one outcome per failure set    *)
(* (a single one is enough where the cache is used and nothing is fetched). *)
FetchOutcomes(force) ==
    IF UseCache(force, LoadCache(file))
    THEN {FetchAll({})}
    ELSE {FetchAll(fails) : fails \in FailSets(Requests(FetchAll({})))}

(* The outcomes of the write that matter: none when nothing is written. *)
WriteOutcomes(articles) == IF Truthy(articles) THEN IOOutcomes ELSE {OkIO}

CallGetAllArticles ==
    \E force \in BOOLEAN :
        \E fetched \in FetchOutcomes(force) :
          \E io \in WriteOutcomes(fetched.ret) :
            \E r \in {GetAllArticles(force, file, fetched, io)} :
                Ran("get_all_articles", Args(0, force, <<>>), Some(r.ret), r.w,
                    r.calls, r.colls, r.file, <<>>)

(* main, lines 168-173: line 166 is CallGetAllArticles with force_refresh  *)
(* left False, and ret its result, the local `articles`; main goes on to   *)
(* print.                                                                  *)
Main ==
    /\ op = "get_all_articles" /\ ~arg.force
    /\ op' = "main"
    /\ \E k \in Choices(ret.val) : stdout' = ChosenUrl(ret.val, k)
    /\ UNCHANGED <<token, srvColls, srvShape, now, file, at, arg, ret, net, calls,
                   colls, pre, logged, concVars>>

Next ==
    \/ Tick
    \/ CallGetRaindropArticles
    \/ CallGetCollections
    \/ CallLoadCache
    \/ CallSaveCache
    \/ CallGetAllArticles
    \/ Main

Spec == Init /\ [][Next]_vars

----------------------------------------------------------------------------
(* Concurrent specification: NProcs invocations of main share CACHE_FILE   *)
(* without a lock.  load_cache reads the file in one step; save_cache      *)
(* opens it with "w", which truncates it, and json.dump then reaches the   *)
(* file through the buffered writer, ChunkLen tokens per write, each write *)
(* landing at the writer's own offset.                                     *)

Max(a, b) == IF a > b THEN a ELSE b

(* The file after `chunk` is written at offset off: a hole is read as NUL. *)
WriteAt(d, off, chunk) ==
    [i \in 1..Max(Len(d), off + Len(chunk)) |->
        IF i > off /\ i <= off + Len(chunk) THEN chunk[i - off]
        ELSE IF i <= Len(d) THEN d[i]
        ELSE Tok("NUL", <<>>)]

InitConc ==
    /\ InitEnv
    /\ token
    /\ file \in {NoFile, File(Serialize(0 - 600, OldList))}
    /\ InitSeq
    /\ InitConcIdle

ConcFrame == UNCHANGED <<token, srvColls, srvShape, now, seqVars>>

(* The program is started. *)
CInvoke(p) ==
    /\ pc[p] = "idle"
    /\ pc' = [pc EXCEPT ![p] = "load"]
    /\ UNCHANGED <<file, arts, wbuf, woff, given>>
    /\ ConcFrame

(* Lines 130-133: pc "hit" is the return of the cached list. *)
CLoad(p) ==
    /\ pc[p] = "load"
    /\ \E cached \in {LoadCache(file)} :
           IF UseCache(FALSE, cached)
           THEN arts' = [arts EXCEPT ![p] = cached.val] /\ pc' = [pc EXCEPT ![p] = "hit"]
           ELSE arts' = arts /\ pc' = [pc EXCEPT ![p] = "fetch"]
    /\ UNCHANGED <<file, wbuf, woff, given>>
    /\ ConcFrame

(* Lines 135-145: the fetch sequence touches no shared state. *)
CFetch(p) ==
    /\ pc[p] = "fetch"
    /\ \E fetched \in FetchOutcomes(TRUE) :
           /\ arts' = [arts EXCEPT ![p] = fetched.ret]
           /\ pc' = [pc EXCEPT ![p] = IF Truthy(fetched.ret) THEN "open" ELSE "done"]
    /\ UNCHANGED <<file, wbuf, woff, given>>
    /\ ConcFrame

(* Lines 122-123: open(CACHE_FILE, "w"). *)
COpen(p) ==
    /\ pc[p] = "open"
    /\ file' = File(<<>>)
    /\ wbuf' = [wbuf EXCEPT ![p] = Serialize(now, arts[p])]
    /\ woff' = [woff EXCEPT ![p] = 0]
    /\ given' = given \cup {arts[p]}
    /\ pc' = [pc EXCEPT ![p] = "write"]
    /\ UNCHANGED arts
    /\ ConcFrame

(* Line 124: one write of the buffered writer; the last one ends the call. *)
CWrite(p) ==
    /\ pc[p] = "write"
    /\ LET n == Min(ChunkLen, Len(wbuf[p]) - woff[p])
           chunk == SubSeq(wbuf[p], woff[p] + 1, woff[p] + n)
       IN  /\ file' = File(WriteAt(file.data, woff[p], chunk))
           /\ woff' = [woff EXCEPT ![p] = woff[p] + n]
           /\ pc' = [pc EXCEPT ![p] = IF woff[p] + n = Len(wbuf[p]) THEN "done" ELSE "write"]
    /\ UNCHANGED <<arts, wbuf, given>>
    /\ ConcFrame

(* The process ends. *)
CExit(p) ==
    /\ pc[p] \in {"hit", "done"}
    /\ pc' = [pc EXCEPT ![p] = "idle"]
    /\ arts' = [arts EXCEPT ![p] = <<>>]
    /\ wbuf' = [wbuf EXCEPT ![p] = <<>>]
    /\ woff' = [woff EXCEPT ![p] = 0]
    /\ UNCHANGED <<file, given>>
    /\ ConcFrame

NextConc ==
    \E p \in Procs :
        \/ CInvoke(p)
        \/ CLoad(p)
        \/ CFetch(p)
        \/ COpen(p)
        \/ CWrite(p)
        \/ CExit(p)

SpecConc == InitConc /\ [][NextConc]_vars

----------------------------------------------------------------------------
(* Vocabulary of the properties *)

IsGetAll == op \in {"get_all_articles", "main"}
Missed == IsGetAll /\ calls # <<>>
PreRecord == pre.exists /\ WellFormed(pre.data)
CachedBefore == Parse(pre.data).articles
AgeBefore == at - Parse(pre.data).timestamp
SaveFailed == \E i \in 1..Len(logged) : logged[i] = "Cache save error"
FetchFailed == \E i \in 1..Len(logged) : logged[i] = "Raindrop.io error"
LookupFailed == \E i \in 1..Len(logged) : logged[i] = "Collections error"

(* The items of a raindrops response that become articles. *)
ValidCount == Cardinality({i \in 1..Len(srvShape) : srvShape[i] \in {"ok", "notitle"}})
ArticleCalls == {i \in 1..Len(calls) : calls[i][1] = "articles"}

(* The calls a fetch sequence starts with, then one fetch per collection. *)
FetchSequence ==
    /\ Len(calls) >= 2
    /\ calls[1] = <<"articles", 0>>
    /\ calls[2] = <<"collections">>
    /\ \A i \in 3..Len(calls) : calls[i][1] = "articles" /\ calls[i][2] # 0

(* ret and net are what the fetch sequence yields for some failure set. *)
FromFetch ==
    \E fails \in FailSets(Requests(FetchAll({}))) :
        /\ FetchAll(fails).ret = ret.val
        /\ FetchAll(fails).w.net = net

----------------------------------------------------------------------------
(* C1, as stated: a cache record younger than 300 s, whatever its list,    *)
(* is returned unchanged by get_all_articles(force_refresh=False), without *)
(* any fetch call or network request.                                      *)
C1_AnyCachedList ==
    (IsGetAll /\ ~arg.force /\ PreRecord /\ AgeBefore < CACHE_DURATION)
        => (ret.val = CachedBefore /\ net = <<>>)

(* C1, amended: a cache record younger than 300 s that holds a non-empty   *)
(* list is returned unchanged, without any fetch call or network request.  *)
C1_FreshNonEmptyCacheIsReturned ==
    (IsGetAll /\ ~arg.force /\ PreRecord /\ AgeBefore < CACHE_DURATION
        /\ CachedBefore # <<>>)
        => (ret.val = CachedBefore /\ net = <<>>)

C1_Witness ==
    /\ op = "get_all_articles" /\ ~arg.force
    /\ token /\ ValidCount > 0
    /\ PreRecord /\ AgeBefore = 60
    /\ ret.val = OldList /\ net = <<>>

(* C2: a cache record whose age is 300 s or more is absent for load_cache, *)
(* and get_all_articles then runs the fetch sequence (collection 0, the    *)
(* collection list, the collections) and returns what it yields.           *)
C2_StaleCacheIsIgnored ==
    /\ (op = "load_cache" /\ PreRecord /\ AgeBefore >= CACHE_DURATION) => ret = None
    /\ (IsGetAll /\ ~arg.force /\ PreRecord /\ AgeBefore >= CACHE_DURATION)
           => (FetchSequence /\ FromFetch)

C2_Witness ==
    /\ op = "get_all_articles" /\ ~arg.force
    /\ PreRecord /\ AgeBefore = CACHE_DURATION /\ CachedBefore # <<>>
    /\ Len(calls) > 2 /\ ret.val # <<>> /\ ret.val # CachedBefore

(* Where an article of a fetch comes from: its collection and its place in *)
(* that collection's response.                                             *)
ArticleColl(a) == a.url[2]
ArticleIdx(a) == a.url[3]
CallOf(c) == CHOOSE i \in 1..Len(calls) : calls[i] = <<"articles", c>>

(* The merged list is the results of the fetch calls, one after the other. *)
InCallOrder(l) ==
    \A i, j \in 1..Len(l) :
        i < j => \/ CallOf(ArticleColl(l[i])) < CallOf(ArticleColl(l[j]))
                 \/ /\ ArticleColl(l[i]) = ArticleColl(l[j])
                    /\ ArticleIdx(l[i]) < ArticleIdx(l[j])

(* The time the list get_all_articles last returned was written. *)
WrittenAt == IF calls # <<>> THEN at ELSE Parse(file.data).timestamp

C3_State ==
    Missed =>
        /\ InCallOrder(ret.val)
        /\ ~FetchFailed =>
               Len(ret.val) = IF token THEN Cardinality(ArticleCalls) * ValidCount ELSE 0
        /\ (ret.val # <<>> /\ ~SaveFailed) =>
               /\ file.exists /\ WellFormed(file.data)
               /\ Parse(file.data).timestamp = at
               /\ Parse(file.data).articles = ret.val

C3_Step ==
    ( /\ IsGetAll /\ ret.val # <<>> /\ ~SaveFailed
      /\ now' = now /\ now - WrittenAt < CACHE_DURATION
      /\ op' = "get_all_articles" /\ ~arg'.force )
        => (ret'.val = ret.val /\ net' = <<>> /\ calls' = <<>>)

(* C3: a fetch sequence returns the articles of collection 0 followed by   *)
(* those of each fetched collection, in order and complete; a non-empty    *)
(* list is in the cache with the time of the call once the write went      *)
(* through, and every later call less than 300 s after that write, no     *)
(* other operation in between, returns it without any network request.     *)
C3_MergedListIsCachedAndReturned == [](C3_State) /\ [][C3_Step]_vars

C3_Witness ==
    /\ op = "get_all_articles" /\ ~arg.force /\ calls = <<>> /\ net = <<>>
    /\ srvColls = <<Coll(7)>>
    /\ Len(ret.val) = 6
    /\ \A i \in 1..3 : ArticleColl(ret.val[i]) = 0 /\ ArticleColl(ret.val[i + 3]) = 7
    /\ PreRecord /\ AgeBefore = 299

(* C4: a fetch sequence whose merged list is empty leaves the cache file   *)
(* as it was and main prints "No articles found"; with a non-empty list    *)
(* main prints the url of one of its articles.                             *)
C4_EmptyListIsNotCached ==
    /\ (Missed /\ ret.val = <<>>) => (file = pre /\ ~SaveFailed)
    /\ (op = "main" /\ ret.val = <<>>) => stdout = NoArticlesFound
    /\ (op = "main" /\ ret.val # <<>>) =>
           \E i \in 1..Len(ret.val) : stdout = ret.val[i].url

C4_Witness ==
    /\ op = "main" /\ calls # <<>> /\ ret.val = <<>>
    /\ token
    /\ PreRecord /\ AgeBefore >= CACHE_DURATION /\ CachedBefore # <<>>
    /\ file = pre /\ stdout = NoArticlesFound

C5_Step ==
    ( /\ op = "save_cache" /\ ~SaveFailed
      /\ now' = now /\ now - at < CACHE_DURATION
      /\ op' = "load_cache" )
        => ret' = Some(arg.articles)

(* C5: load_cache less than 300 s after a save_cache(X) that went through, *)
(* no other operation in between, returns X.                               *)
C5_RoundTrip == [][C5_Step]_vars

C5_Witness ==
    /\ op = "load_cache" /\ ret = Some(OldList)
    /\ PreRecord /\ AgeBefore = 299

(* C6: without a token both fetches return the empty sequence and send     *)
(* nothing, so a fetch sequence returns the empty list with no request.    *)
C6_NoTokenNoRequest ==
    ~token =>
        /\ op \in {"get_raindrop_articles", "get_collections"} =>
               (ret = Some(<<>>) /\ net = <<>>)
        /\ Missed => (ret.val = <<>> /\ net = <<>>)

C6_Witness ==
    /\ ~token /\ ValidCount > 0 /\ srvColls # <<>>
    /\ op = "get_all_articles" /\ calls # <<>> /\ ret.val = <<>> /\ net = <<>>

UserCollections ==
    [i \in 1..Len(srvColls) |-> [id |-> srvColls[i].id, title |-> CollTitle(srvColls[i].id)]]

(* C7, as stated: get_collections always returns a sequence ending with    *)
(* the synthetic entry, which is all it returns on any failure, an absent  *)
(* token included.                                                         *)
C7_AlwaysEndsWithSynthetic ==
    op = "get_collections" =>
        /\ ret.val # <<>>
        /\ ret.val[Len(ret.val)] = Synthetic
        /\ (~token \/ logged # <<>>) => ret.val = <<Synthetic>>
        /\ (token /\ logged = <<>>) => ret.val = UserCollections \o <<Synthetic>>

(* C7, amended: with a token, get_collections returns the user-defined    *)
(* collections in API order followed by the synthetic entry, and the       *)
(* synthetic entry alone when the request or its decoding fails; without a *)
(* token it returns the empty sequence.                                    *)
C7_SyntheticLastWithToken ==
    op = "get_collections" =>
        /\ ~token => ret.val = <<>>
        /\ (token /\ logged # <<>>) => ret.val = <<Synthetic>>
        /\ (token /\ logged = <<>>) => ret.val = UserCollections \o <<Synthetic>>

C7_Witness ==
    /\ op = "get_collections" /\ token /\ logged # <<>>
    /\ Len(srvColls) = 1 /\ srvColls[1].dict
    /\ ret.val = <<Synthetic>>

C8_Rest ==
    /\ (op = "load_cache" /\ ~PreRecord) => ret = None
    /\ (IsGetAll /\ SaveFailed) => (ret.val # <<>> /\ FromFetch)

(* C8, as stated: get_raindrop_articles returns the empty sequence when    *)
(* any failure occurs during the call, that of the nested collection-name  *)
(* lookup included; load_cache yields None on a missing or unparsable      *)
(* file; a failed save_cache does not change what get_all_articles         *)
(* returns.                                                                *)
C8_EmptyOnAnyFailure ==
    /\ (op = "get_raindrop_articles" /\ logged # <<>>) => ret = Some(<<>>)
    /\ C8_Rest

(* C8, amended: get_raindrop_articles returns the empty sequence when its  *)
(* own request or the decoding of its response fails; a failed nested      *)
(* lookup is absorbed by get_collections and the list is still complete,   *)
(* an article whose lookup failed carrying the generic source name; the    *)
(* rest as stated.                                                         *)
C8_FailuresAreAbsorbed ==
    /\ op = "get_raindrop_articles" =>
           /\ ret.some
           /\ FetchFailed => ret.val = <<>>
           /\ (token /\ ~FetchFailed) =>
                  /\ Len(ret.val) = ValidCount
                  /\ \A i \in 1..Len(ret.val) :
                         ret.val[i].source \in
                             {RaindropIo, <<"Raindrop", CollTitle(arg.cid)>>}
                  /\ LookupFailed =>
                         \E i \in 1..Len(ret.val) : ret.val[i].source = RaindropIo
    /\ C8_Rest

C8_Witness ==
    /\ op = "get_raindrop_articles" /\ arg.cid = 7 /\ srvColls = <<Coll(7)>>
    /\ LookupFailed /\ ~FetchFailed
    /\ Len(ret.val) = 3
    /\ \E i \in 1..3 : ret.val[i].source = RaindropIo
    /\ \E i \in 1..3 : ret.val[i].source = <<"Raindrop", CollTitle(7)>>

NonDefault(cl) == SelectSeq(cl, LAMBDA c : c.id # 0)

(* C9: a fetch sequence (cache miss or force_refresh) fetches collection 0 *)
(* once, then the collection list, then the first 5 collections of that    *)
(* list whose id is not 0, once each and in list order, and nothing else.  *)
C9_FirstFiveNonDefault ==
    /\ (IsGetAll /\ arg.force) => calls # <<>>
    /\ Missed =>
           LET nd == NonDefault(colls)
           IN  calls = <<<<"articles", 0>>, <<"collections">>>>
                       \o [i \in 1..Min(5, Len(nd)) |-> <<"articles", nd[i].id>>]

C9_Witness ==
    /\ op = "get_all_articles" /\ arg.force /\ token
    /\ PreRecord /\ AgeBefore < CACHE_DURATION /\ CachedBefore # <<>>
    /\ Len(NonDefault(colls)) > 5
    /\ Len(calls) = 7

(* C10: with concurrent invocations on the unlocked cache file, a          *)
(* load_cache that returns a list returns one that some save_cache call    *)
(* was given in full, never a truncated or mixed one.                      *)
C10_LoadedListWasGiven ==
    \A p \in Procs : pc[p] = "hit" => arts[p] \in given

====
